---- MODULE Spec2Model ----
(***************************************************************************)
(* Model of the file-to-report pipeline of code_quality_check:             *)
(*   app/rag/gemini_client.py  GeminiClient  (analysis client)             *)
(*   app/core/analyzer.py      CodeAnalyzer  (analyzer and batch join)     *)
(*                                                                         *)
(* Python dicts are records whose DOMAIN is the set of keys present.       *)
(* A response text is a sequence of tokens: the two brace characters,      *)
(* prose words, and JSON members ("key": value).  Strings built with       *)
(* f-strings or += are sequences of their pieces.                          *)
(***************************************************************************)
EXTENDS Integers, Sequences, FiniteSets, TLC

\* ------------------------------------------------------------------ bounds
MaxTokens == 4      \* tokens in a response text (client specification)
MaxIssues == 2      \* issues in one decoded response
MaxLineNo == 2      \* largest line number / count the model reports
MaxFiles  == 2      \* paths in one batch
MaxLines  == 3      \* lines of a file's content

\* ------------------------------------------------------- generic helpers
Range(s) == {s[j] : j \in DOMAIN s}

SeqsUpTo(S, n) == UNION {[1..m -> S] : m \in 0..n}

\* dict.get(key, default)
Get(d, key, default) == IF key \in DOMAIN d THEN d[key] ELSE default

\* d[key] = value
SetKey(d, key, value) ==
    [x \in DOMAIN d \cup {key} |-> IF x = key THEN value ELSE d[x]]

\* dict.setdefault(key, value)
SetDefault(d, key, value) == IF key \in DOMAIN d THEN d ELSE SetKey(d, key, value)

RECURSIVE SumSeq(_)
SumSeq(s) == IF s = <<>> THEN 0 ELSE s[1] + SumSeq(Tail(s))

\* ------------------------------------------------------- response texts
LB == [t |-> "{"]
RB == [t |-> "}"]
Word(w) == [t |-> "word", w |-> w]
Member(k, v) == [t |-> "member", k |-> k, v |-> v]

\* "issues" in text
SubstringIssues(text) ==
    \E j \in DOMAIN text :
        \/ text[j].t = "word" /\ text[j].w = "issues"
        \/ text[j].t = "member" /\ text[j].k = "issues"

\* re.search(r'({[\s\S]*})', text): greedy, from the first '{' to the last
\* '}' after it; <<0, 0>> when there is no match
JsonMatch(text) ==
    LET lbs == {j \in DOMAIN text : text[j].t = "{"}
        rbs == {j \in DOMAIN text : text[j].t = "}"}
    IN  IF lbs = {} \/ rbs = {} THEN <<0, 0>>
        ELSE LET a == CHOOSE j \in lbs : \A m \in lbs : j <= m
                 b == CHOOSE j \in rbs : \A m \in rbs : m <= j
             IN  IF a < b THEN <<a, b>> ELSE <<0, 0>>

\* the members between the braces of the matched group
Inner(text, m) == SubSeq(text, m[1] + 1, m[2] - 1)

\* json.loads raises JSONDecodeError unless the group is one object
JsonDecodable(inner) == \A j \in DOMAIN inner : inner[j].t = "member"

\* json.loads: the decoded dict; a repeated key keeps its last value
JsonLoads(inner) ==
    LET keys == {inner[j].k : j \in DOMAIN inner}
        last(k) == CHOOSE j \in DOMAIN inner :
                      /\ inner[j].k = k
                      /\ \A m \in DOMAIN inner : inner[m].k = k => m <= j
    IN  [k \in keys |-> inner[last(k)].v]

\* ------------------------------------------------- GeminiClient results
\* variant: the first fallback without a summary
FailedToParseNoSummary ==
    [issues |-> <<>>, production_ready |-> FALSE, warnings_count |-> 0,
     error |-> <<"Failed to parse response">>]

FailedToParse ==
    [issues |-> <<>>, summary |-> <<"Analysis could not be completed.">>,
     production_ready |-> FALSE, warnings_count |-> 0,
     error |-> <<"Failed to parse response">>]

\* variant: the raw text is not attached
UnexpectedFormatBare(text) ==
    [issues |-> <<>>,
     summary |-> <<"Analysis completed but response format was unexpected.">>,
     production_ready |-> FALSE, warnings_count |-> 0]

UnexpectedFormat(text) ==
    [issues |-> <<>>,
     summary |-> <<"Analysis completed but response format was unexpected.">>,
     production_ready |-> FALSE, warnings_count |-> 0,
     raw_response |-> text]

\* variant: the except branch leaves production_ready true
ErrorProcessingReady(e) ==
    [issues |-> <<>>, summary |-> <<"Error processing response: ", e>>,
     production_ready |-> TRUE, warnings_count |-> 0,
     error |-> <<e>>]

ErrorProcessing(e) ==
    [issues |-> <<>>, summary |-> <<"Error processing response: ", e>>,
     production_ready |-> FALSE, warnings_count |-> 0,
     error |-> <<e>>]

\* variant: warnings_count defaults to 0
EnsureFieldsZero(decoded) ==
    LET r1 == SetDefault(decoded, "issues", <<>>)
        r2 == SetDefault(r1, "summary", <<"Analysis completed.">>)
        r3 == SetDefault(r2, "production_ready", FALSE)
    IN  SetDefault(r3, "warnings_count", 0)

\* variant: warnings_count is recomputed from the issues
EnsureFieldsRecount(decoded) ==
    LET r1 == SetDefault(decoded, "issues", <<>>)
        r2 == SetDefault(r1, "summary", <<"Analysis completed.">>)
        r3 == SetDefault(r2, "production_ready", FALSE)
    IN  SetKey(r3, "warnings_count", Len(Get(r3, "issues", <<>>)))

\* the four setdefault calls on the decoded dict
EnsureFields(decoded) ==
    LET r1 == SetDefault(decoded, "issues", <<>>)
        r2 == SetDefault(r1, "summary", <<"Analysis completed.">>)
        r3 == SetDefault(r2, "production_ready", FALSE)
    IN  SetDefault(r3, "warnings_count", Len(Get(r3, "issues", <<>>)))

\* variant: only the empty text takes the first fallback
LacksIssuesOnlyEmpty(text) == text = <<>>

\* the first fallback: an empty text, or one without the word "issues"
LacksIssues(text) == text = <<>> \/ ~SubstringIssues(text)

\* _parse_response once response.text has been read
ParseText(text) ==
    IF LacksIssues(text) THEN FailedToParse
    ELSE LET m == JsonMatch(text)
         IN  IF m # <<0, 0>> /\ JsonDecodable(Inner(text, m))
             THEN EnsureFields(JsonLoads(Inner(text, m)))
             ELSE UnexpectedFormat(text)

\* a response object: reading .text either yields the text or raises
TextResponse(text) == [raises |-> FALSE, text |-> text]
BlockedResponse == [raises |-> TRUE, text |-> <<>>]

\* GeminiClient._parse_response
ParseResponse(response) ==
    IF response.raises THEN ErrorProcessing("ValueError")
    ELSE ParseText(response.text)

\* ------------------------------------------------------------ file names
\* a path or file name is the sequence of its characters
Uppers == <<"A","B","C","D","E","F","G","H","I","J","K","L","M",
            "N","O","P","Q","R","S","T","U","V","W","X","Y","Z">>
Lowers == <<"a","b","c","d","e","f","g","h","i","j","k","l","m",
            "n","o","p","q","r","s","t","u","v","w","x","y","z">>

LowerChar(c) ==
    IF \E j \in DOMAIN Uppers : Uppers[j] = c
    THEN Lowers[CHOOSE j \in DOMAIN Uppers : Uppers[j] = c]
    ELSE c

\* str.lower()
Lower(s) == [j \in DOMAIN s |-> LowerChar(s[j])]

\* largest index of character c in s, 0 when absent (str.rfind, 1-based)
RFind(s, c) ==
    LET at == {j \in DOMAIN s : s[j] = c}
    IN  IF at = {} THEN 0 ELSE CHOOSE j \in at : \A m \in at : m <= j

\* os.path.basename
BaseName(path) == SubSeq(path, RFind(path, "/") + 1, Len(path))

\* os.path.splitext(file_name)[1]: from the last dot on, unless only dots
\* precede it
SplitExt(file_name) ==
    LET dot == RFind(file_name, ".")
    IN  IF dot > 0 /\ \E j \in 1..(dot - 1) : file_name[j] # "."
        THEN SubSeq(file_name, dot, Len(file_name))
        ELSE <<>>

PyExt  == <<".", "p", "y">>
SqlExt == <<".", "s", "q", "l">>

\* variant: no else branch, file_type keeps a default
FileTypeDefaultPython(file_extension) ==
    IF file_extension = SqlExt THEN "sql" ELSE "python"

\* the if/elif/else on file_extension; "none" is the else branch
FileTypeOf(file_extension) ==
    IF file_extension = PyExt THEN "python"
    ELSE IF file_extension = SqlExt THEN "sql"
    ELSE "none"

UnsupportedReport(file_name, file_extension) ==
    [error |-> <<"Unsupported file type: ">> \o file_extension,
     file_name |-> file_name,
     issues |-> <<>>]

\* variant: the exception is swallowed without a trace in the report
ReadErrorSilent(file_name, e) ==
    [file_name |-> file_name, issues |-> <<>>]

ReadErrorReport(file_name, e) ==
    [error |-> <<"Error reading file: ", e>>,
     file_name |-> file_name,
     issues |-> <<>>]

\* --------------------------------------------------------------- chunker
\* a chunk carries its code, here the range of file lines it holds, and the
\* 1-based file line of its first line
Chunk(first, last) == [code |-> <<first, last>>, start_line |-> first]

\* the chunks whose first lines are the set starts, over a file of n lines
ChunksAt(starts, n) ==
    LET nxt(s) == IF \E u \in starts : u > s
                  THEN (CHOOSE u \in starts : u > s /\ \A w \in starts : w > s => u <= w) - 1
                  ELSE n
        ord == CHOOSE f \in [1..Cardinality(starts) -> starts] :
                   \A a, b \in 1..Cardinality(starts) : a < b => f[a] < f[b]
    IN  [j \in 1..Cardinality(starts) |-> Chunk(ord[j], nxt(ord[j]))]

\* chunk_code: every split of the n lines into non-overlapping chunks that
\* cover the file in order; an empty file gives no chunk or one empty chunk
Chunkings(n) ==
    IF n = 0 THEN {<<>>, <<Chunk(1, 0)>>}
    ELSE {ChunksAt({1} \cup cuts, n) : cuts \in SUBSET (2..n)}

\* ---------------------------------------------------------- CodeAnalyzer
\* variant: line_end computed from line_start
AdjustIssueCopied(issue, chunk) ==
    LET a == SetKey(issue, "line_start", chunk.start_line + Get(issue, "line_start", 0))
    IN  SetKey(a, "line_end", chunk.start_line + Get(issue, "line_start", 0))

\* the two assignments of the inner for loop on one issue
AdjustIssue(issue, chunk) ==
    LET a == SetKey(issue, "line_start", chunk.start_line + Get(issue, "line_start", 0))
    IN  SetKey(a, "line_end", chunk.start_line + Get(issue, "line_end", 0))

\* the inner for loop: every issue of the chunk's result, in place
AdjustLines(chunk_result, chunk) ==
    IF "issues" \in DOMAIN chunk_result
    THEN [chunk_result EXCEPT
            !.issues = [j \in DOMAIN chunk_result.issues |->
                           AdjustIssue(chunk_result.issues[j], chunk)]]
    ELSE chunk_result

\* variant: production_ready taken from the chunk at hand
CombineOneLastWins(combined_result, result) ==
    [combined_result EXCEPT
        !.issues = @ \o Get(result, "issues", <<>>),
        !.summary = @ \o Get(result, "summary", <<>>) \o <<"\n">>,
        !.production_ready = Get(result, "production_ready", TRUE),
        !.warnings_count = @ + Get(result, "warnings_count", 0)]

\* variant: a chunk's error is carried into the combined result
CombineOneKeepsError(combined_result, result) ==
    LET merged ==
          [combined_result EXCEPT
              !.issues = @ \o Get(result, "issues", <<>>),
              !.summary = @ \o Get(result, "summary", <<>>) \o <<"\n">>,
              !.production_ready = IF ~Get(result, "production_ready", TRUE) THEN FALSE ELSE @,
              !.warnings_count = @ + Get(result, "warnings_count", 0)]
    IN  IF "error" \in DOMAIN result THEN SetKey(merged, "error", result.error)
        ELSE merged

\* one iteration of the combining loop
CombineOne(combined_result, result) ==
    [combined_result EXCEPT
        !.issues = @ \o Get(result, "issues", <<>>),
        !.summary = @ \o Get(result, "summary", <<>>) \o <<"\n">>,
        !.production_ready = IF ~Get(result, "production_ready", TRUE) THEN FALSE ELSE @,
        !.warnings_count = @ + Get(result, "warnings_count", 0)]

RECURSIVE CombineFrom(_, _)
CombineFrom(combined_result, chunk_results) ==
    IF chunk_results = <<>> THEN combined_result
    ELSE CombineFrom(CombineOne(combined_result, chunk_results[1]), Tail(chunk_results))

\* variant: the combined result starts out not production ready
CombineNotReady(file_name, chunk_results) ==
    CombineFrom([file_name |-> file_name, issues |-> <<>>, summary |-> <<>>,
                 production_ready |-> FALSE, warnings_count |-> 0],
                chunk_results)

\* the combined result of the multi-chunk branch
Combine(file_name, chunk_results) ==
    CombineFrom([file_name |-> file_name, issues |-> <<>>, summary |-> <<>>,
                 production_ready |-> TRUE, warnings_count |-> 0],
                chunk_results)

\* the display name passed with chunk i of n
ChunkName(file_name, i, n) == [file_name |-> file_name, chunk |-> i, of |-> n]

\* variant: the results in the order the tasks finished
GatherAsCompleted(results, finished) ==
    [j \in DOMAIN finished |-> results[finished[j]]]

\* asyncio.gather: the results in the order of the awaitables passed in
Gather(results, finished) == results

\* ----------------------------------------------------------------- state
VARIABLES
    file_paths,     \* the argument of analyze_multiple_files
    tasks,          \* per path: the analyze_file coroutine's locals and position
    received,       \* per path: the responses its model calls returned, in order
    model_calls,    \* every generate_content_async call issued, in order
    reads,          \* every read_file call, in order
    chunker_calls,  \* every chunk_code call, in order
    finished,       \* the tasks in the order they returned or raised
    batch,          \* analyze_multiple_files: "running", "returned", "raised"
    batch_result,   \* the list analyze_multiple_files returned
    client_pc,      \* a lone analyze_code call: "idle", "awaiting", "returned", "raised"
    client_result   \* what that call returned

vars == <<file_paths, tasks, received, model_calls, reads, chunker_calls,
          finished, batch, batch_result, client_pc, client_result>>

clientVars == <<client_pc, client_result>>
batchVars == <<file_paths, tasks, received, model_calls, reads, chunker_calls,
               finished, batch, batch_result>>

NoResult == [none |-> TRUE]

NewTask == [pc |-> "start", file_name |-> <<>>, file_type |-> "none",
            read |-> "none",
            content |-> 0, chunks |-> <<>>, i |-> 0, chunk_results |-> <<>>,
            result |-> NoResult, exc |-> "none"]

Files == DOMAIN file_paths

InitWith(paths) ==
    /\ file_paths = paths
    /\ tasks = [k \in DOMAIN paths |-> NewTask]
    /\ received = [k \in DOMAIN paths |-> <<>>]
    /\ model_calls = <<>>
    /\ reads = <<>>
    /\ chunker_calls = <<>>
    /\ finished = <<>>
    /\ batch = "running"
    /\ batch_result = <<>>
    /\ client_pc = "idle"
    /\ client_result = NoResult

\* ---------------------------------------------------------- analyze_file
Return(t, result) == [t EXCEPT !.pc = "done", !.result = result]
Raise(t, exc) == [t EXCEPT !.pc = "raised", !.exc = exc]

ModelCall(k, code, name) == [task |-> k, code |-> code, name |-> name]

\* variant: every call carries the first chunk
ChunkCallFirst(k, file_name, chunks, i) ==
    ModelCall(k, chunks[1].code, ChunkName(file_name, i, Len(chunks)))

\* the analyze_code call of the loop body for chunk i
ChunkCall(k, file_name, chunks, i) ==
    ModelCall(k, chunks[i].code, ChunkName(file_name, i, Len(chunks)))

\* variant: the calls of all chunks are issued before the first await
FirstCallsAll(k, file_name, chunks) ==
    [i \in DOMAIN chunks |-> ChunkCall(k, file_name, chunks, i)]

\* the calls issued on entering the loop, up to its first await
FirstCalls(k, file_name, chunks) == <<ChunkCall(k, file_name, chunks, 1)>>

\* analyze_file from its first line to its first await (or its return):
\* classification, read_file, chunk_code, and the first model call.
\* Tasks created by one gather start in the order they were created.
StartFile(k, Contents) ==
    /\ tasks[k].pc = "start"
    /\ \A j \in Files : j < k => tasks[j].pc # "start"
    /\ LET file_name == BaseName(file_paths[k])
           file_extension == Lower(SplitExt(file_name))
           file_type == FileTypeOf(file_extension)
           t0 == [tasks[k] EXCEPT !.file_name = file_name, !.file_type = file_type]
       IN  IF file_type = "none"
           THEN /\ tasks' = [tasks EXCEPT ![k] = Return(t0, UnsupportedReport(file_name, file_extension))]
                /\ finished' = Append(finished, k)
                /\ UNCHANGED <<reads, chunker_calls, model_calls>>
           ELSE /\ reads' = Append(reads, k)
                /\ \/ \* read_file raises: the except branch
                      /\ tasks' = [tasks EXCEPT ![k] = Return([t0 EXCEPT !.read = "failed"],
                                                              ReadErrorReport(file_name, "OSError"))]
                      /\ finished' = Append(finished, k)
                      /\ UNCHANGED <<chunker_calls, model_calls>>
                   \/ \* read_file returns the content
                      \E content \in Contents :
                         /\ chunker_calls' = Append(chunker_calls, k)
                         /\ LET t1 == [t0 EXCEPT !.read = "ok", !.content = content]
                            IN  \/ \* chunk_code raises: nothing catches it
                                   /\ tasks' = [tasks EXCEPT ![k] = Raise(t1, "chunker")]
                                   /\ finished' = Append(finished, k)
                                   /\ UNCHANGED model_calls
                                \/ \E chunks \in Chunkings(content) :
                                     LET t2 == [t1 EXCEPT !.chunks = chunks]
                                     IN  IF Len(chunks) = 1
                                         THEN /\ tasks' = [tasks EXCEPT ![k] = [t2 EXCEPT !.pc = "await_single"]]
                                              /\ model_calls' = Append(model_calls,
                                                    ModelCall(k, <<1, content>>, [file_name |-> file_name]))
                                              /\ UNCHANGED finished
                                         ELSE IF Len(chunks) = 0
                                         THEN /\ tasks' = [tasks EXCEPT ![k] = Return(t2, Combine(file_name, <<>>))]
                                              /\ finished' = Append(finished, k)
                                              /\ UNCHANGED model_calls
                                         ELSE /\ tasks' = [tasks EXCEPT ![k] = [t2 EXCEPT !.pc = "await_chunk", !.i = 1]]
                                              /\ model_calls' = model_calls \o FirstCalls(k, file_name, chunks)
                                              /\ UNCHANGED finished
    /\ UNCHANGED <<file_paths, received, batch, batch_result, clientVars>>

\* analyze_file resumed with the response of its awaited model call:
\* analyze_code parses it and analyze_file runs on to its next await or to
\* its return
Resume(k, response) ==
    /\ received' = [received EXCEPT ![k] = Append(@, response)]
    /\ LET t == tasks[k]
           result == ParseResponse(response)
       IN  IF t.pc = "await_single"
           THEN /\ tasks' = [tasks EXCEPT ![k] = Return(t, SetKey(result, "file_name", t.file_name))]
                /\ finished' = Append(finished, k)
                /\ UNCHANGED model_calls
           ELSE LET chunk_results == Append(t.chunk_results, AdjustLines(result, t.chunks[t.i]))
                    t1 == [t EXCEPT !.chunk_results = chunk_results]
                IN  IF t.i < Len(t.chunks)
                    THEN /\ tasks' = [tasks EXCEPT ![k] = [t1 EXCEPT !.i = t.i + 1]]
                         /\ model_calls' = Append(model_calls,
                               ChunkCall(k, t.file_name, t.chunks, t.i + 1))
                         /\ UNCHANGED finished
                    ELSE /\ tasks' = [tasks EXCEPT ![k] = Return(t1, Combine(t.file_name, chunk_results))]
                         /\ finished' = Append(finished, k)
                         /\ UNCHANGED model_calls

\* the awaited model call of task k returns one of Responses
ModelRespond(k, Responses) ==
    /\ tasks[k].pc \in {"await_single", "await_chunk"}
    /\ \E response \in Responses : Resume(k, response)
    /\ UNCHANGED <<file_paths, reads, chunker_calls, batch, batch_result, clientVars>>

\* the awaited model call of task k raises: analyze_code and analyze_file
\* have no handler around the await
ModelRaise(k) ==
    /\ tasks[k].pc \in {"await_single", "await_chunk"}
    /\ tasks' = [tasks EXCEPT ![k] = Raise(@, "model")]
    /\ finished' = Append(finished, k)
    /\ UNCHANGED <<file_paths, received, model_calls, reads, chunker_calls,
                   batch, batch_result, clientVars>>

\* the awaited model call of task k never responds: no timeout or
\* cancellation reaches the await, so analyze_file stays suspended
ModelHang(k) ==
    /\ tasks[k].pc \in {"await_single", "await_chunk"}
    /\ tasks' = [tasks EXCEPT ![k] = [@ EXCEPT !.pc = "hung"]]
    /\ UNCHANGED <<file_paths, received, model_calls, reads, chunker_calls,
                   finished, batch, batch_result, clientVars>>

\* ------------------------------------------------ analyze_multiple_files
\* gather's future resolves with every task's result once all have returned
GatherReturn ==
    /\ batch = "running"
    /\ \A k \in Files : tasks[k].pc = "done"
    /\ batch' = "returned"
    /\ batch_result' = Gather([k \in Files |-> tasks[k].result], finished)
    /\ UNCHANGED <<file_paths, tasks, received, model_calls, reads,
                   chunker_calls, finished, clientVars>>

\* gather (return_exceptions=False) passes the first exception of a task
\* on to the awaiting caller; the other tasks keep running
GatherRaise ==
    /\ batch = "running"
    /\ \E k \in Files : tasks[k].pc = "raised"
    /\ batch' = "raised"
    /\ UNCHANGED <<file_paths, tasks, received, model_calls, reads,
                   chunker_calls, finished, batch_result, clientVars>>

\* ------------------------------------------- a lone analyze_code call
\* analyze_code up to its await: the prompt is built and the call issued
ClientCall ==
    /\ client_pc = "idle"
    /\ client_pc' = "awaiting"
    /\ UNCHANGED <<client_result, batchVars>>

\* the call returns one of Responses; analyze_code returns _parse_response
\* of it
ClientRespond(Responses) ==
    /\ client_pc = "awaiting"
    /\ client_pc' = "returned"
    /\ \E response \in Responses :
          client_result' = [response |-> response, result |-> ParseResponse(response)]
    /\ UNCHANGED batchVars

\* the call raises; analyze_code has no handler around the await
ClientRaise ==
    /\ client_pc = "awaiting"
    /\ client_pc' = "raised"
    /\ UNCHANGED <<client_result, batchVars>>

\* ---------------------------------------------------------------- inputs
Located(a) == [line_start |-> a, line_end |-> MaxLineNo, severity |-> "high"]
Unlocated == [severity |-> "low"]

Object(members) == <<LB>> \o members \o <<RB>>

\* what one model call of a file analysis may return
FileIssueLists ==
    {<<>>, <<Located(1)>>,
     [j \in 1..MaxIssues |-> IF j = 1 THEN Unlocated ELSE Located(MaxLineNo)]}

FileTexts ==
    {<<>>, <<Word("ok")>>, <<Word("issues")>>, <<LB, Word("issues"), RB>>,
     <<Word("issues")>> \o Object(<<Member("production_ready", TRUE)>>)}
    \cup {Object(<<Member("issues", l), Member("summary", <<"s">>),
                   Member("production_ready", b)>>)
            : l \in FileIssueLists, b \in BOOLEAN}
    \cup {Object(<<Member("issues", l), Member("production_ready", b),
                   Member("warnings_count", MaxLineNo)>>)
            : l \in FileIssueLists, b \in BOOLEAN}

FileResponses == {TextResponse(text) : text \in FileTexts} \cup {BlockedResponse}

PathA == <<"a", ".", "p", "y">>
PathB == <<"d", "/", "b", ".", "S", "q", "l">>
PathC == <<"c", ".", "t", "x", "t">>

Paths == {PathA, PathB, PathC,
          <<".", "p", "y">>, <<"a", ".", "p", "y", "/", "c">>,
          <<"a", ".", "P", "Y", ".">>, <<"s", "q", "l">>,
          <<"n", ".", "T", "x", "t">>}

\* the content sizes and responses of a batch
BatchContents == {2}
BatchResponses ==
    {TextResponse(<<>>),
     TextResponse(Object(<<Member("issues", <<Located(1)>>),
                           Member("production_ready", TRUE)>>))}

\* what a lone analyze_code call may get back
IssueLists == SeqsUpTo({Located(a) : a \in 1..MaxLineNo} \cup {Unlocated}, MaxIssues)

Alphabet ==
    {LB, RB, Word("issues"), Word("ok"),
     Member("issues", <<>>), Member("issues", <<Located(1)>>),
     Member("summary", <<"s">>), Member("production_ready", TRUE),
     Member("production_ready", FALSE), Member("warnings_count", MaxLineNo)}

Optional(S) == {<<>>} \cup {<<x>> : x \in S}

ObjectTexts ==
    {pre \o Object(i \o s \o p \o w) :
        pre \in Optional({Word("issues")}),
        i \in Optional({Member("issues", l) : l \in IssueLists}),
        s \in Optional({Member("summary", <<"s">>)}),
        p \in Optional({Member("production_ready", b) : b \in BOOLEAN}),
        w \in Optional({Member("warnings_count", c) : c \in 0..MaxLineNo})}

ClientTexts == SeqsUpTo(Alphabet, MaxTokens) \cup ObjectTexts

ClientResponses == {TextResponse(text) : text \in ClientTexts} \cup {BlockedResponse}

\* -------------------------------------------------------- specifications
\* one file, analysed in depth
Init == \E path \in Paths : InitWith(<<path>>)

Next ==
    \/ \E k \in Files : StartFile(k, 0..MaxLines)
    \/ \E k \in Files : ModelRespond(k, FileResponses)
    \/ \E k \in Files : ModelRaise(k)
    \/ GatherReturn
    \/ GatherRaise

Spec == Init /\ [][Next]_vars

\* a batch of files analysed concurrently
BatchInit == \E paths \in SeqsUpTo({PathA, PathB, PathC}, MaxFiles) : InitWith(paths)

BatchNext ==
    \/ \E k \in Files : StartFile(k, BatchContents)
    \/ \E k \in Files : ModelRespond(k, BatchResponses)
    \/ \E k \in Files : ModelRaise(k)
    \/ \E k \in Files : ModelHang(k)
    \/ GatherReturn
    \/ GatherRaise

BatchSpec == BatchInit /\ [][BatchNext]_vars

\* the event loop runs every callback that is ready, and a call that is not
\* hung gets its outcome
BatchFairSpec == BatchSpec /\ WF_vars(BatchNext)

\* one analyze_code call on its own
ClientInit == InitWith(<<>>)

ClientNext ==
    \/ ClientCall
    \/ ClientRespond(ClientResponses)
    \/ ClientRaise

ClientSpec == ClientInit /\ [][ClientNext]_vars

\* ------------------------------------------------------------ properties
\* the lower-cased extension analyze_file compares for path k
ExtOf(k) == Lower(SplitExt(BaseName(file_paths[k])))

Supported(k) == ExtOf(k) \in {PyExt, SqlExt}

\* the model calls issued on behalf of path k
CallsOf(k) == {j \in DOMAIN model_calls : model_calls[j].task = k}

\* C1: analyze_multiple_files raises no exception to its caller, whatever
\* fails inside a file's analysis, and returns one report per requested path.
C1_BatchNeverRaises ==
    /\ batch # "raised"
    /\ batch = "returned" => Len(batch_result) = Len(file_paths)

\* C2: once every per-file analysis has returned, the list returned has the
\* length of the input and its k-th element is the report the analysis of
\* the k-th path returned (for an unsupported path, its unsupported-type
\* error report), whatever the order in which the analyses finished.
C2_ReportsInInputOrder ==
    batch = "returned" =>
        /\ Len(batch_result) = Len(file_paths)
        /\ \A k \in Files :
              /\ batch_result[k] = tasks[k].result
              /\ batch_result[k].file_name = BaseName(file_paths[k])
              /\ ~Supported(k) =>
                    batch_result[k] = UnsupportedReport(BaseName(file_paths[k]), ExtOf(k))

\* C2 witness: two files whose model calls completed in the reverse of the
\* input order, with different reports, and the batch returned.
C2_Witness ==
    /\ batch = "returned"
    /\ finished = <<2, 1>>
    /\ received[1] # <<>> /\ received[2] # <<>>
    /\ batch_result[1] # batch_result[2]

\* C3: analyze_code never raises: whatever the model call does (returns a
\* usable response, an empty or malformed one, or fails), analyze_code
\* returns, and after an unusable response the result has no issues and
\* production_ready false.
C3_AnalyzeCodeNeverRaises ==
    /\ client_pc # "raised"
    /\ client_pc = "returned" =>
          LET r == client_result.response
          IN  (r.raises \/ LacksIssues(r.text) \/ JsonMatch(r.text) = <<0, 0>>) =>
                  /\ client_result.result.issues = <<>>
                  /\ client_result.result.production_ready = FALSE

\* C4: a path whose extension, lower-cased, is neither .py nor .sql gets a
\* report with a non-empty error and no issues, and no read_file, chunk_code
\* or model call is made for it.
C4_UnsupportedFailsFast ==
    \A k \in Files :
        (~Supported(k) /\ tasks[k].pc # "start") =>
            /\ tasks[k].pc = "done"
            /\ "error" \in DOMAIN tasks[k].result
            /\ tasks[k].result.error # <<>>
            /\ tasks[k].result.issues = <<>>
            /\ k \notin Range(reads)
            /\ k \notin Range(chunker_calls)
            /\ CallsOf(k) = {}

\* C4 witness: a path with an upper-case, unsupported extension has been
\* analysed.
C4_Witness ==
    \E k \in Files :
        /\ ~Supported(k)
        /\ SplitExt(BaseName(file_paths[k])) # ExtOf(k)
        /\ tasks[k].pc = "done"

\* C5: when read_file fails on a supported path, analyze_file returns a
\* report whose error describes the read failure and whose issues are
\* empty, it does not raise, and neither chunk_code nor the model is called.
C5_ReadFailureReport ==
    \A k \in Files :
        tasks[k].read = "failed" =>
            /\ Supported(k)
            /\ tasks[k].pc = "done"
            /\ "error" \in DOMAIN tasks[k].result
            /\ tasks[k].result.error = <<"Error reading file: ", "OSError">>
            /\ tasks[k].result.issues = <<>>
            /\ k \notin Range(chunker_calls)
            /\ CallsOf(k) = {}

\* C5 witness: a read has failed on a supported path and the batch returned.
C5_Witness ==
    \E k \in Files :
        /\ tasks[k].read = "failed"
        /\ k \in Range(reads)
        /\ batch = "returned"

\* a file analysis that returned through the combining branch
Merged(k) == tasks[k].pc = "done" /\ tasks[k].read = "ok" /\ Len(tasks[k].chunks) # 1

\* the issues the model reported for chunk c of path k, as the client
\* handed them to analyze_file
Reported(k, c) == ParseResponse(received[k][c]).issues

\* the number of issues reported for the chunks before chunk c
Before(k, c) == SumSeq([j \in 1..(c - 1) |-> Len(Reported(k, j))])

LineKeys == {"line_start", "line_end"}

\* C6: for a file split into two or more chunks, the merged issues are the
\* chunks' issues in chunk order and, within a chunk, in reported order;
\* line_start and line_end of an issue of chunk c are the reported values
\* (0 when missing) plus the start_line of chunk c, its other fields are
\* untouched.
C6_MergedIssues ==
    \A k \in Files :
        (Merged(k) /\ Len(tasks[k].chunks) >= 2) =>
            LET t == tasks[k]
                n == Len(t.chunks)
            IN  /\ Len(t.result.issues) = Before(k, n + 1)
                /\ \A c \in 1..n : \A j \in DOMAIN Reported(k, c) :
                      LET said == Reported(k, c)[j]
                          out == t.result.issues[Before(k, c) + j]
                      IN  /\ DOMAIN out = DOMAIN said \cup LineKeys
                          /\ \A f \in LineKeys :
                                out[f] = Get(said, f, 0) + t.chunks[c].start_line
                          /\ \A f \in DOMAIN said \ LineKeys : out[f] = said[f]

\* C6 witness: a merged report of at least two chunks, the first two of
\* which reported issues, one of them without line fields.
C6_Witness ==
    \E k \in Files :
        /\ Merged(k) /\ Len(tasks[k].chunks) >= 2
        /\ Reported(k, 1) # <<>> /\ Reported(k, 2) # <<>>
        /\ \E j \in DOMAIN Reported(k, 2) : DOMAIN Reported(k, 2)[j] \cap LineKeys = {}
        /\ tasks[k].chunks[2].start_line > 1

\* C7: in every report analyze_file returns, an issue the model placed at
\* line n (n >= 1, counted from 1 within the code it was sent) of a chunk
\* whose first line is file line s carries file line s + n - 1.
C7_FileGlobalLines ==
    \A k \in Files :
        (tasks[k].pc = "done" /\ tasks[k].read = "ok" /\ tasks[k].chunks # <<>>) =>
            LET t == tasks[k]
            IN  \A c \in DOMAIN t.chunks : \A j \in DOMAIN Reported(k, c) :
                   LET said == Reported(k, c)[j]
                       out == t.result.issues[Before(k, c) + j]
                   IN  \A f \in LineKeys \cap DOMAIN said :
                          said[f] >= 1 => out[f] = t.chunks[c].start_line + said[f] - 1

\* C8: the production_ready of a merged report is false exactly when the
\* result of at least one chunk has production_ready false, a result
\* without the field counting as true.
C8_ProductionReadyIsAnd ==
    \A k \in Files :
        Merged(k) =>
            (tasks[k].result.production_ready = FALSE
               <=> \E c \in DOMAIN tasks[k].chunk_results :
                      Get(tasks[k].chunk_results[c], "production_ready", TRUE) = FALSE)

\* C8 witness: a merged report that is not production ready although its
\* last chunk was.
C8_Witness ==
    \E k \in Files :
        /\ Merged(k) /\ Len(tasks[k].chunks) >= 2
        /\ tasks[k].chunk_results[1].production_ready = FALSE
        /\ tasks[k].chunk_results[Len(tasks[k].chunks)].production_ready = TRUE
        /\ tasks[k].result.production_ready = FALSE

\* the object a response text decodes to, if it gets that far
Decodes(r) ==
    /\ ~r.raises
    /\ ~LacksIssues(r.text)
    /\ JsonMatch(r.text) # <<0, 0>>
    /\ JsonDecodable(Inner(r.text, JsonMatch(r.text)))

Decoded(r) == JsonLoads(Inner(r.text, JsonMatch(r.text)))

\* what one chunk's response adds to warnings_count
Contribution(r) ==
    IF ~Decodes(r) THEN 0
    ELSE IF "warnings_count" \in DOMAIN Decoded(r) THEN Decoded(r).warnings_count
    ELSE IF "issues" \in DOMAIN Decoded(r) THEN Len(Decoded(r).issues)
    ELSE 0

\* C9: the warnings_count of a merged report is the sum over the chunks of
\* the chunk's warnings_count, where a decoded response without the field
\* counts its own issues and a response that could not be parsed counts 0.
C9_WarningsCountIsSum ==
    \A k \in Files :
        Merged(k) =>
            tasks[k].result.warnings_count =
                SumSeq([c \in DOMAIN tasks[k].chunks |-> Contribution(received[k][c])])

\* C9 witness: a merged report with a chunk that omitted warnings_count and
\* reported issues, and a chunk whose response could not be parsed.
C9_Witness ==
    \E k \in Files :
        /\ Merged(k)
        /\ \E c \in DOMAIN tasks[k].chunks :
              /\ Decodes(received[k][c])
              /\ "warnings_count" \notin DOMAIN Decoded(received[k][c])
              /\ Contribution(received[k][c]) > 0
        /\ \E c \in DOMAIN tasks[k].chunks : ~Decodes(received[k][c])
        /\ tasks[k].result.warnings_count > 0

\* a returned analyze_code call whose response text has no brace-delimited
\* substring
NoBraces ==
    /\ client_pc = "returned"
    /\ ~client_result.response.raises
    /\ JsonMatch(client_result.response.text) = <<0, 0>>

\* C10 as stated: every response text without a brace-delimited substring
\* yields production_ready false, no issues, and the raw text in the result
\* (an empty text has nothing to preserve).
C10_NoBracesKeepsRaw ==
    NoBraces =>
        /\ client_result.result.production_ready = FALSE
        /\ client_result.result.issues = <<>>
        /\ client_result.response.text # <<>> =>
              /\ "raw_response" \in DOMAIN client_result.result
              /\ client_result.result.raw_response = client_result.response.text

\* C10 amended: every response text without a brace-delimited substring
\* yields production_ready false and no issues; the raw text is in the
\* result (raw_response) when the text is non-empty and contains "issues",
\* and otherwise the result is the "Failed to parse response" result, which
\* carries no raw text.
C10_NoBracesAmended ==
    NoBraces =>
        LET text == client_result.response.text
            result == client_result.result
        IN  /\ result.production_ready = FALSE
            /\ result.issues = <<>>
            /\ IF text # <<>> /\ SubstringIssues(text)
               THEN "raw_response" \in DOMAIN result /\ result.raw_response = text
               ELSE /\ "raw_response" \notin DOMAIN result
                    /\ result.error = <<"Failed to parse response">>

\* C10 witness: a text that mentions issues, holds a brace but no
\* brace-delimited substring, and came back as raw_response.
C10_Witness ==
    /\ NoBraces
    /\ SubstringIssues(client_result.response.text)
    /\ \E j \in DOMAIN client_result.response.text : client_result.response.text[j] = RB
    /\ "raw_response" \in DOMAIN client_result.result


\* a returned analyze_code call whose response text has a brace-delimited
\* substring that json.loads rejects
Malformed ==
    /\ client_pc = "returned"
    /\ ~client_result.response.raises
    /\ JsonMatch(client_result.response.text) # <<0, 0>>
    /\ ~JsonDecodable(Inner(client_result.response.text,
                            JsonMatch(client_result.response.text)))

UnexpectedSummary == <<"Analysis completed but response format was unexpected.">>

\* C11 as stated: every response whose brace-delimited substring is not
\* decodable JSON yields the "unexpected format" result: no issues,
\* production_ready false, warnings_count 0 and the raw text attached.
C11_MalformedIsUnexpected ==
    Malformed =>
        /\ client_result.result.issues = <<>>
        /\ client_result.result.production_ready = FALSE
        /\ client_result.result.warnings_count = 0
        /\ client_result.result.summary = UnexpectedSummary
        /\ "raw_response" \in DOMAIN client_result.result
        /\ client_result.result.raw_response = client_result.response.text

\* C11 amended: every response whose brace-delimited substring is not
\* decodable JSON yields no issues, production_ready false and
\* warnings_count 0 without raising; it is the "unexpected format" result
\* with the raw text attached when the text contains "issues", and
\* otherwise the "Failed to parse response" result without the raw text.
C11_MalformedAmended ==
    Malformed =>
        LET text == client_result.response.text
            result == client_result.result
        IN  /\ result.issues = <<>>
            /\ result.production_ready = FALSE
            /\ result.warnings_count = 0
            /\ IF SubstringIssues(text)
               THEN /\ result.summary = UnexpectedSummary
                    /\ DOMAIN result = {"issues", "summary", "production_ready",
                                        "warnings_count", "raw_response"}
                    /\ result.raw_response = text
               ELSE /\ result.summary = <<"Analysis could not be completed.">>
                    /\ DOMAIN result = {"issues", "summary", "production_ready",
                                        "warnings_count", "error"}
                    /\ result.error = <<"Failed to parse response">>

\* C11 witness: a text with an issues member between braces and a stray
\* word beside it came back as the "unexpected format" result.
C11_Witness ==
    /\ Malformed
    /\ \E j \in DOMAIN client_result.response.text :
          /\ client_result.response.text[j].t = "member"
          /\ client_result.response.text[j].k = "issues"
    /\ client_result.result.summary = UnexpectedSummary


\* a report analyze_file returned for a supported, readable file
Analysed(k) == tasks[k].pc = "done" /\ tasks[k].read = "ok"

\* the fields of every report of the combining branch
ReportFields == {"file_name", "issues", "summary", "production_ready", "warnings_count"}

\* C12 as stated: a report of the single-chunk path has the field set of a
\* report of the combining branch, no field more and no field less.
C12_SameFieldSet ==
    \A k \in Files : Analysed(k) => DOMAIN tasks[k].result = ReportFields

\* C12 amended: a report of the single-chunk path and a report of the
\* combining branch both carry file_name, issues, summary, production_ready
\* and warnings_count; the single-chunk report may carry further fields
\* (error, raw_response) that a combined report never has.
C12_RequiredFields ==
    \A k \in Files : Analysed(k) => ReportFields \subseteq DOMAIN tasks[k].result

\* C12 witness: a single-chunk report whose response lacked "issues", so
\* that it carries an error beside the five fields.
C12_Witness ==
    \E k \in Files :
        /\ Analysed(k) /\ Len(tasks[k].chunks) = 1
        /\ ~received[k][1].raises /\ LacksIssues(received[k][1].text)
        /\ ReportFields \subseteq DOMAIN tasks[k].result
        /\ "error" \in DOMAIN tasks[k].result


\* the number of model calls issued for path k whose outcome is still awaited
InFlight(k) ==
    Cardinality(CallsOf(k)) - Len(received[k])
        - (IF tasks[k].exc = "model" THEN 1 ELSE 0)

HungCall == \E k \in Files : tasks[k].pc = "hung"

BatchReturned == batch = "returned"

\* C14: analyze_multiple_files waits for every per-file analysis without a
\* timeout: under fair scheduling it eventually returns when no issued model
\* call stays unanswered, and while a model call stays unanswered neither
\* that file's analysis nor the batch returns.
C14_WaitsForAll ==
    /\ ([]~HungCall) => <>BatchReturned
    /\ [](HungCall => ~BatchReturned)

\* the same without the failures that C1 and C3 are about
NothingRaised == \A k \in Files : tasks[k].pc # "raised"

C14_WaitsForAllUnlessRaised ==
    /\ ([]~HungCall /\ []NothingRaised) => <>BatchReturned
    /\ [](HungCall => ~BatchReturned)


\* the response of a model call was not turned into a decoded object
ParseFailed(r) == ~Decodes(r)

\* C15: a report returned for a supported, readable file has
\* production_ready false whenever the result of any of its chunks (or of
\* the whole file on the single-chunk path) has production_ready false or
\* its response failed to parse.
C15_NotReadyOnFailure ==
    \A k \in Files :
        Analysed(k) =>
            ((\E c \in DOMAIN received[k] :
                 \/ ParseFailed(received[k][c])
                 \/ Get(Decoded(received[k][c]), "production_ready", FALSE) = FALSE)
               => tasks[k].result.production_ready = FALSE)

\* C15 witness: a report of several chunks, the first decoded and production
\* ready, a later one with a response whose text could not be read.
C15_Witness ==
    \E k \in Files :
        /\ Analysed(k) /\ Len(tasks[k].chunks) >= 2
        /\ Decodes(received[k][1])
        /\ Get(Decoded(received[k][1]), "production_ready", FALSE) = TRUE
        /\ \E c \in DOMAIN received[k] : received[k][c].raises
        /\ tasks[k].result.production_ready = FALSE


\* a returned analyze_code call whose response decoded
DecodedCall == client_pc = "returned" /\ Decodes(client_result.response)

CallsSeq(k) == SelectSeq(model_calls, LAMBDA call : call.task = k)

\* C17: for a supported, readable file split into n >= 1 chunks whose model
\* calls all returned, analyze_file issued exactly n model calls, the j-th
\* for the j-th chunk, whatever the responses were; and at no time were
\* more calls issued than the file has chunks.
C17_OneCallPerChunk ==
    \A k \in Files :
        LET t == tasks[k]
            n == Len(t.chunks)
        IN  /\ Len(CallsSeq(k)) <= n
            /\ (Analysed(k) /\ n >= 1) =>
                  /\ Len(CallsSeq(k)) = n
                  /\ Len(received[k]) = n
                  /\ \A j \in 1..n :
                        /\ CallsSeq(k)[j].code = t.chunks[j].code
                        /\ CallsSeq(k)[j].name =
                              IF n = 1 THEN [file_name |-> t.file_name]
                              ELSE [file_name |-> t.file_name, chunk |-> j, of |-> n]

\* C17 witness: a file of two or more chunks was analysed although the
\* response for its first chunk was empty and a later one malformed.
C17_Witness ==
    \E k \in Files :
        /\ Analysed(k) /\ Len(tasks[k].chunks) >= 2
        /\ received[k][1] = TextResponse(<<>>)
        /\ \E c \in DOMAIN received[k] :
              received[k][c] = TextResponse(<<LB, Word("issues"), RB>>)
        /\ Len(CallsSeq(k)) = Len(tasks[k].chunks)


Diagnostics == {"error", "raw_response"}

\* C18: a report of the combining branch carries exactly file_name, issues,
\* summary, production_ready and warnings_count, whatever error or
\* raw_response the results of its chunks carried; a report of the
\* single-chunk path carries the error and raw_response of the client's
\* result unchanged.
C18_ErrorDroppedByMerge ==
    \A k \in Files :
        /\ Merged(k) => DOMAIN tasks[k].result = ReportFields
        /\ (Analysed(k) /\ Len(tasks[k].chunks) = 1) =>
              LET client == ParseResponse(received[k][1])
              IN  \A f \in Diagnostics :
                     /\ f \in DOMAIN client <=> f \in DOMAIN tasks[k].result
                     /\ f \in DOMAIN client => tasks[k].result[f] = client[f]

\* C18 witness: a combined report all of whose chunk results carried an
\* error.
C18_Witness ==
    \E k \in Files :
        /\ Merged(k) /\ Len(tasks[k].chunks) >= 2
        /\ \A c \in DOMAIN tasks[k].chunk_results :
              "error" \in DOMAIN tasks[k].chunk_results[c]
        /\ "error" \notin DOMAIN tasks[k].result


\* C19: when chunk_code returns no chunk for a supported, readable file,
\* analyze_file takes the combining branch, issues no model call, and
\* returns a report with no issues, an empty summary, warnings_count 0 and
\* production_ready true.
C19_ZeroChunksReportReady ==
    \A k \in Files :
        (Analysed(k) /\ tasks[k].chunks = <<>>) =>
            /\ CallsOf(k) = {}
            /\ received[k] = <<>>
            /\ tasks[k].result =
                  [file_name |-> BaseName(file_paths[k]), issues |-> <<>>,
                   summary |-> <<>>, production_ready |-> TRUE,
                   warnings_count |-> 0]

\* C19 witness: the batch returned a production-ready report for a file for
\* which the chunker returned no chunk and no model call was made.
C19_Witness ==
    \E k \in Files :
        /\ Analysed(k) /\ tasks[k].chunks = <<>>
        /\ k \in Range(chunker_calls)
        /\ model_calls = <<>>
        /\ batch = "returned"
        /\ batch_result[k].production_ready = TRUE

====
